---- MODULE Spec2Model ----
(***************************************************************************)
(* A model of the chaperone domain miner (src/dataparser.py): the mining   *)
(* loop of main() over the identifier mapping, get_intact_interactions     *)
(* with its field parser, get_domains_batch and the final merge.           *)
(*                                                                         *)
(* Python strings are sequences of one-character strings, so that split,   *)
(* strip, lower, "in" and len are computed on the characters.  The remote  *)
(* services are collaborators whose answers are drawn in the initial       *)
(* state: intact[k] is what the interaction service answers to the k-th    *)
(* chaperone of the mapping, annot[b] what the annotation service answers  *)
(* to the b-th slice of the accession list.                                *)
(***************************************************************************)
EXTENDS Integers, Sequences, FiniteSets, TLC

VARIABLES
    pc,               \* position in main() / get_domains_batch
    chap_map,         \* the identifier mapping, in iteration order
    intact,           \* interaction service: answer to the k-th chaperone
    annot,            \* annotation service: answer to the b-th slice
    pos,              \* index of the mining loop in chap_map
    queried,          \* accessions sent to the interaction service, in order
    interaction_data, \* the edge list of main()
    all_targets,      \* the set all_targets of main()
    accession_list,   \* argument of get_domains_batch
    i,                \* loop variable of get_domains_batch
    slices,           \* iterations of the loop of get_domains_batch so far
    queries,          \* the chunks sent to the annotation service, in order
    domain_data,      \* the record list of get_domains_batch
    written,          \* files written by main(), in order
    df_master         \* the merged table

vars == <<pc, chap_map, intact, annot, pos, queried, interaction_data,
          all_targets, accession_list, i, slices, queries, domain_data,
          written, df_master>>

----------------------------------------------------------------------------
(* Bounds of the model *)

MaxChaperones == 3
MaxLines == 3
MaxListLen == 41
MaxRows == 2

----------------------------------------------------------------------------
(* Python values *)

TAB == "\t"
NL == "\n"

\* Values that are not strings: each is a 1-tuple holding a word, which no
\* sequence of one-character strings equals.
None == <<"None">>
NaN == <<"float('nan')">>
Absent == <<"absent">>

IsStr(v) == v \notin {None, NaN, Absent}

\* str(v)
PyStr(v) ==
    IF v = None THEN <<"N", "o", "n", "e">>
    ELSE IF v = NaN THEN <<"n", "a", "n">>
    ELSE v

\* sub in s
Contains(s, sub) ==
    \E k \in 0..(Len(s) - Len(sub)) : SubSeq(s, k + 1, k + Len(sub)) = sub

\* s.startswith(c) for a one-character c
StartsWith(s, c) == Len(s) > 0 /\ s[1] = c

\* s.split(sep) for a one-character sep: always at least one part
Split(s, sep) ==
    LET P == {k \in 1..Len(s) : s[k] = sep}
        n == Cardinality(P)
        At(j) == IF j = 0 THEN 0
                 ELSE IF j = n + 1 THEN Len(s) + 1
                 ELSE CHOOSE p \in P : Cardinality({q \in P : q < p}) = j - 1
    IN  [j \in 1..(n + 1) |-> SubSeq(s, At(j - 1) + 1, At(j) - 1)]

\* text.splitlines(): the parts between line breaks, without a last empty
\* part ("\n" is the line break of the texts of this model)
SplitLines(text) ==
    LET parts == Split(text, NL)
    IN  IF parts[Len(parts)] = <<>> THEN SubSeq(parts, 1, Len(parts) - 1)
        ELSE parts

IsSpace(c) == c \in {" ", TAB, NL}

\* s.strip()
Strip(s) ==
    LET K == {k \in 1..Len(s) : ~IsSpace(s[k])}
    IN  IF K = {} THEN <<>>
        ELSE SubSeq(s, CHOOSE k \in K : \A q \in K : k <= q,
                       CHOOSE k \in K : \A q \in K : k >= q)

UpperCase == <<"A", "B", "C", "D", "E", "F", "G", "H", "I", "J", "K", "L", "M",
               "N", "O", "P", "Q", "R", "S", "T", "U", "V", "W", "X", "Y", "Z">>
LowerCase == <<"a", "b", "c", "d", "e", "f", "g", "h", "i", "j", "k", "l", "m",
               "n", "o", "p", "q", "r", "s", "t", "u", "v", "w", "x", "y", "z">>

\* s.lower()
Lower(s) ==
    [k \in 1..Len(s) |->
        IF \E u \in 1..26 : UpperCase[u] = s[k]
        THEN LowerCase[CHOOSE u \in 1..26 : UpperCase[u] = s[k]]
        ELSE s[k]]

\* list(S) for a set S: the order is the set's, any order is possible
Orderings(S) ==
    {o \in [1..Cardinality(S) -> S] : \A a, b \in 1..Cardinality(S) : o[a] = o[b] => a = b}

RECURSIVE Concat(_)
\* the concatenation of a sequence of sequences
Concat(ss) == IF ss = <<>> THEN <<>> ELSE Head(ss) \o Concat(Tail(ss))

----------------------------------------------------------------------------
(* get_intact_interactions *)

CHAPERONE_LIST ==
    <<"DJC24_HUMAN", "DJC27_HUMAN", "DNJ5B_HUMAN", "DNJ5G_HUMAN",
      "DNJA1_HUMAN", "DNJA2_HUMAN", "DNJA3_HUMAN", "DNJA4_HUMAN",
      "DNJB1_HUMAN", "DNJB2_HUMAN", "DNJB3_HUMAN", "DNJB4_HUMAN",
      "DNJB5_HUMAN", "DNJB6_HUMAN", "DNJB7_HUMAN", "DNJB8_HUMAN",
      "DNJC2_HUMAN", "DNJC5_HUMAN", "DNJC7_HUMAN", "DNJC8_HUMAN",
      "DNJC9_HUMAN", "SACS_HUMAN">>

UniprotPrefix == <<"u", "n", "i", "p", "r", "o", "t", "k", "b", ":">>

\* parse_id(raw): the second ':'-part, cut before the first '-'
parse_id(raw) ==
    IF Contains(raw, UniprotPrefix)
    THEN Split(Split(raw, ":")[2], "-")[1]
    ELSE None

\* "if id_a": neither None nor the empty string
Truthy(v) == v # None /\ v # <<>>

\* The identifiers one line adds to targets (the body of the loop over lines).
LineTargets(chaperone_acc, line) ==
    IF line = <<>> \/ StartsWith(line, "#") THEN {}
    ELSE LET cols == Split(line, TAB)
         IN  IF Len(cols) < 2 THEN {}
             ELSE {id \in {parse_id(cols[1]), parse_id(cols[2])} :
                        Truthy(id) /\ id # chaperone_acc}

\* targets after the loop over the lines of r.text
Targets(chaperone_acc, text) ==
    LET lines == SplitLines(text)
    IN  UNION {LineTargets(chaperone_acc, lines[k]) : k \in 1..Len(lines)}

\* Without the set: every identifier of every line, in order, repeated as
\* often as it occurs.
AllLineIds(chaperone_acc, text) ==
    LET lines == SplitLines(text)
        Ids(line) ==
            IF line = <<>> \/ StartsWith(line, "#") \/ Len(Split(line, TAB)) < 2
            THEN <<>>
            ELSE SelectSeq(<<parse_id(Split(line, TAB)[1]), parse_id(Split(line, TAB)[2])>>,
                           LAMBDA id : Truthy(id) /\ id # chaperone_acc)
    IN  Concat([k \in 1..Len(lines) |-> Ids(lines[k])])

get_intact_interactions_nodedup(chaperone_acc, resp) ==
    IF resp.kind = "exception" \/ resp.status # 200 THEN {<<>>}
    ELSE {AllLineIds(chaperone_acc, resp.text)}

get_intact_interactions_nostatus(chaperone_acc, resp) ==
    IF resp.kind = "exception" THEN {<<>>}
    ELSE Orderings(Targets(chaperone_acc, resp.text))

\* get_intact_interactions(chaperone_acc): the lists it may return, given the
\* service's answer resp.  requests.get raising, or a status other than 200,
\* leaves targets empty; nothing in the loop over the lines can raise.
get_intact_interactions(chaperone_acc, resp) ==
    IF resp.kind = "exception" THEN {<<>>}
    ELSE IF resp.status # 200 THEN {<<>>}
    ELSE Orderings(Targets(chaperone_acc, resp.text))

----------------------------------------------------------------------------
(* The mining loop of main() *)

NewEdges_swapped(name, acc, partners) ==
    [k \in 1..Len(partners) |->
        [Chaperone_Name |-> name, Chaperone_ID |-> acc,
         Target_ID |-> acc, Source |-> "IntAct"]]

\* The edges one chaperone appends to interaction_data.
NewEdges(name, acc, partners) ==
    LET kept == SelectSeq(partners, LAMBDA partner : partner # acc)
    IN  [k \in 1..Len(kept) |->
            [Chaperone_Name |-> name, Chaperone_ID |-> acc,
             Target_ID |-> kept[k], Source |-> "IntAct"]]

\* An accession that is not a string: the chaperone is skipped.
SkipInvalid ==
    /\ pc = "mine"
    /\ pos <= Len(chap_map)
    /\ ~IsStr(chap_map[pos].acc)
    /\ pos' = pos + 1
    /\ UNCHANGED <<pc, chap_map, intact, annot, queried, interaction_data,
                   all_targets, accession_list, i, slices, queries,
                   domain_data, written, df_master>>

\* One iteration of the loop for a string accession.  USE_BIOGRID is False:
\* get_biogrid_interactions is not called.
MineChaperone ==
    /\ pc = "mine"
    /\ pos <= Len(chap_map)
    /\ IsStr(chap_map[pos].acc)
    /\ LET name == chap_map[pos].name
           acc == chap_map[pos].acc
       IN  \E partners \in get_intact_interactions(acc, intact[pos]) :
              LET edges == NewEdges(name, acc, partners)
              IN  /\ interaction_data' = interaction_data \o edges
                  /\ all_targets' = all_targets \cup
                        {edges[k].Target_ID : k \in 1..Len(edges)}
    /\ queried' = Append(queried, chap_map[pos].acc)
    /\ pos' = pos + 1
    /\ UNCHANGED <<pc, chap_map, intact, annot, accession_list, i, slices,
                   queries, domain_data, written, df_master>>

----------------------------------------------------------------------------
(* get_domains_batch *)

chunk_size == 20
SanityLen == 15

KeepAccession_inclusive(x) == Len(x) <= SanityLen

\* The filter of a chunk: len(x) < 15
KeepAccession(x) == Len(x) < SanityLen

Slice_overlong(accs, start) ==
    SubSeq(accs, start + 1,
           IF start + chunk_size + 1 < Len(accs) THEN start + chunk_size + 1 ELSE Len(accs))

\* accession_list[i:i+chunk_size]
Slice(accs, start) ==
    SubSeq(accs, start + 1,
           IF start + chunk_size < Len(accs) THEN start + chunk_size ELSE Len(accs))

\* row.get(key, default) on a cell that may be absent
RowGet(cell, default) == IF cell = Absent THEN default ELSE cell

Unknown == <<"U", "n", "k", "n", "o", "w", "n">>
NanText == <<"n", "a", "n">>

RowRecords_blanks(row) ==
    LET pfam_entry == PyStr(RowGet(row.Pfam, <<>>))
        pfams == Split(pfam_entry, ";")
    IN  IF pfam_entry = <<>> \/ Lower(pfam_entry) = NanText THEN <<>>
        ELSE [k \in 1..Len(pfams) |->
                [Target_ID |-> RowGet(row.Entry, None),
                 Target_Protein_Name |->
                    Strip(Split(PyStr(RowGet(row.Protein_names, Unknown)), "(")[1]),
                 Domain_ID |-> pfams[k]]]

\* The records one row of the answer appends to domain_data.
RowRecords(row) ==
    LET target_id == RowGet(row.Entry, None)
        target_name == PyStr(RowGet(row.Protein_names, Unknown))
        pfam_entry == PyStr(RowGet(row.Pfam, <<>>))
        pfams == SelectSeq(Split(pfam_entry, ";"), LAMBDA x : Strip(x) # <<>>)
    IN  IF pfam_entry = <<>> \/ Lower(pfam_entry) = NanText THEN <<>>
        ELSE [k \in 1..Len(pfams) |->
                [Target_ID |-> target_id,
                 Target_Protein_Name |-> Strip(Split(target_name, "(")[1]),
                 Domain_ID |-> pfams[k]]]

\* The records one answer appends: u.get_df raising leaves none, and so do
\* None and an empty frame.
BatchRecords(resp) ==
    IF resp.kind = "df" /\ resp.rows # <<>>
    THEN Concat([k \in 1..Len(resp.rows) |-> RowRecords(resp.rows[k])])
    ELSE <<>>

AfterBatch_abort(n, start, resp) ==
    IF resp.kind = "raise" THEN n ELSE start + chunk_size

\* The loop variable after one batch: the try/except is inside the loop, so
\* a failed batch is followed by the next one.
AfterBatch(n, start, resp) == start + chunk_size

\* One iteration of the loop of get_domains_batch.
BatchStep ==
    /\ pc = "batch"
    /\ i < Len(accession_list)
    /\ LET chunk == SelectSeq(Slice(accession_list, i), KeepAccession)
           resp == annot[(i \div chunk_size) + 1]
       IN  IF chunk = <<>>
           THEN /\ i' = i + chunk_size
                /\ UNCHANGED <<queries, domain_data>>
           ELSE /\ queries' = Append(queries, chunk)
                /\ domain_data' = domain_data \o BatchRecords(resp)
                /\ i' = AfterBatch(Len(accession_list), i, resp)
    /\ slices' = slices + 1
    /\ UNCHANGED <<pc, chap_map, intact, annot, pos, queried, interaction_data,
                   all_targets, accession_list, written, df_master>>

\* The loop is over: return pd.DataFrame(domain_data).
BatchReturn ==
    /\ pc = "batch"
    /\ i >= Len(accession_list)
    /\ pc' = "domains"
    /\ UNCHANGED <<chap_map, intact, annot, pos, queried, interaction_data,
                   all_targets, accession_list, i, slices, queries, domain_data,
                   written, df_master>>

----------------------------------------------------------------------------
(* main() after the mining loop *)

INTERACTIONS_FILE == "chaperone_interactions.csv"
DOMAINS_FILE == "target_domains.csv"
MASTER_FILE == "chaperone_domain_analysis_master.csv"

Empty_never(df) == FALSE

\* df.empty
Empty(df) == Len(df) = 0

\* One row of the merged table, with the label and the column order of main().
MasterRow(e, d) ==
    [Chaperone_Name |-> e.Chaperone_Name, Chaperone_ID |-> e.Chaperone_ID,
     Target_ID |-> e.Target_ID, Target_Protein_Name |-> d.Target_Protein_Name,
     Domain_ID |-> d.Domain_ID, Interaction_Label |-> 1, Source |-> e.Source]

NoRecord == [Target_ID |-> None, Target_Protein_Name |-> NaN, Domain_ID |-> NaN]

RECURSIVE Merge_left(_, _)
Merge_left(df_interactions, df_domains) ==
    IF df_interactions = <<>> THEN <<>>
    ELSE LET e == Head(df_interactions)
             matching == SelectSeq(df_domains, LAMBDA d : d.Target_ID = e.Target_ID)
             rows == IF matching = <<>> THEN <<NoRecord>> ELSE matching
         IN  [k \in 1..Len(rows) |-> MasterRow(e, rows[k])]
                \o Merge_left(Tail(df_interactions), df_domains)

RECURSIVE Merge(_, _)
\* pd.merge(df_interactions, df_domains, on="Target_ID", how="inner")
Merge(df_interactions, df_domains) ==
    IF df_interactions = <<>> THEN <<>>
    ELSE LET e == Head(df_interactions)
             matching == SelectSeq(df_domains, LAMBDA d : d.Target_ID = e.Target_ID)
         IN  [k \in 1..Len(matching) |-> MasterRow(e, matching[k])]
                \o Merge(Tail(df_interactions), df_domains)

\* After the mining loop: return if there is no edge, else write the
\* interactions table and call get_domains_batch(list(all_targets)).
FinishMining ==
    /\ pc = "mine"
    /\ pos > Len(chap_map)
    /\ IF Empty(interaction_data)
       THEN /\ pc' = "done"
            /\ UNCHANGED <<written, accession_list>>
       ELSE /\ written' = Append(written, INTERACTIONS_FILE)
            /\ \E unique_targets \in Orderings(all_targets) :
                   accession_list' = unique_targets
            /\ pc' = "batch"
    /\ UNCHANGED <<chap_map, intact, annot, pos, queried, interaction_data,
                   all_targets, i, slices, queries, domain_data, df_master>>

\* After get_domains_batch: return if there is no record, else write the
\* domains table, merge and write the master table.
Assemble ==
    /\ pc = "domains"
    /\ IF Empty(domain_data)
       THEN UNCHANGED <<written, df_master>>
       ELSE /\ df_master' = Merge(interaction_data, domain_data)
            /\ written' = written \o <<DOMAINS_FILE, MASTER_FILE>>
    /\ pc' = "done"
    /\ UNCHANGED <<chap_map, intact, annot, pos, queried, interaction_data,
                   all_targets, accession_list, i, slices, queries, domain_data>>

----------------------------------------------------------------------------
(* Inputs *)

P1 == <<"P", "1">>
P2 == <<"P", "2">>
P3 == <<"P", "3">>
P9 == <<"P", "9">>

\* Raw identifier fields of a response line.
F_P1 == UniprotPrefix \o P1
F_P2 == UniprotPrefix \o P2
F_P3 == UniprotPrefix \o P3
F_P2iso == UniprotPrefix \o P2 \o <<"-", "1">>
F_intact == <<"i", "n", "t", "a", "c", "t", ":", "E", "B", "I", "-", "1">>
F_alt == <<"c", "h", "e", "b", "i", ":", "C", "7", "|">> \o UniprotPrefix \o P3
F_noid == UniprotPrefix
F_dash == <<"-">>

Line(a, b) == a \o <<TAB>> \o b \o <<TAB, "-">>
Comment == <<"#", "I", "D">>

\* The text of a response: every line ends with a line break.
Text(lines) == Concat([k \in 1..Len(lines) |-> lines[k] \o <<NL>>])

SeqsUpTo(S, n) == UNION {[1..m -> S] : m \in 0..n}

ExceptionResp == [kind |-> "exception", status |-> 0, text |-> <<>>]

IntactResponses(texts) ==
    {ExceptionResp} \cup [kind : {"response"}, status : {200, 500}, text : texts]

\* The mapping has the first n names of CHAPERONE_LIST; a chaperone whose
\* accession is not a string is never queried, so its answer is not drawn.
Mappings(n, accs, responses) ==
    {m \in [1..n -> [acc : accs \cup {None}, resp : responses]] :
        \A k \in 1..n : m[k].acc = None => m[k].resp = ExceptionResp}

MapOf(m) == [k \in 1..Len(m) |-> [name |-> CHAPERONE_LIST[k], acc |-> m[k].acc]]
AnswersOf(m) == [k \in 1..Len(m) |-> m[k].resp]

\* Lines of the parser's specification.
ParseLines ==
    {Line(F_P1, F_P2), Line(F_P2iso, F_P1), Line(F_intact, F_P2),
     Line(F_alt, F_P1), Line(F_P3, F_P3), Line(F_noid, F_dash),
     Comment, <<>>, F_P2}

ParseTexts == {Text(ls) : ls \in SeqsUpTo(ParseLines, MaxLines)}

\* Texts of the mining loop's specification.
MineTexts ==
    {Text(<<Comment, Line(F_P1, F_P2), Line(F_P2iso, F_P1)>>),
     Text(<<Line(F_P3, F_P3), Line(F_P1, F_P3), Line(F_P2, F_P1)>>),
     <<>>}

\* Rows of an annotation answer.
Row(entry, name, pfam) == [Entry |-> entry, Protein_names |-> name, Pfam |-> pfam]

FooBar == <<"F", "o", "o", " ", "(", "b", "a", "r", ")">>
PF001 == <<"P", "F", "0", "0", "1">>
PF002 == <<"P", "F", "0", "0", "2">>
PF003 == <<"P", "F", "0", "0", "3">>

R_P2 == Row(P2, FooBar, PF001 \o <<";">> \o PF002)
R_P2b == Row(P2, Absent, PF001 \o <<";">>)
R_P3nan == Row(P3, FooBar, NaN)
R_P9 == Row(P9, <<"X">>, PF003)

RaiseResp == [kind |-> "raise", rows |-> <<>>]
NoneResp == [kind |-> "none", rows |-> <<>>]
Frame(rows) == [kind |-> "df", rows |-> rows]

\* Domain fields of the row specification.
PfamFields ==
    {<<>>, NaN, Absent, None, <<"N", "a", "N">>, <<"N", "A", "N">>, PF001,
     PF001 \o <<";">> \o PF002, PF001 \o <<";">>, <<";">>, <<" ", ";", " ">>,
     PF001 \o <<";", " ", ";">> \o PF002, <<" ">> \o PF001 \o <<";", ";">>,
     <<" ", "n", "a", "n">>}

RichRows ==
    {Row(P2, FooBar, f) : f \in PfamFields}
        \cup {Row(P3, n, PF003) : n \in {Absent, NaN, <<" ", "Y", " ">>}}
        \cup {Row(Absent, FooBar, PF003)}

Digits == <<"0", "1", "2", "3", "4", "5", "6", "7", "8", "9">>

\* The k-th accession of a generated list, len characters long.
AccOf(k, len) ==
    [j \in 1..len |->
        IF j = len THEN Digits[(k % 10) + 1]
        ELSE IF j = len - 1 THEN Digits[(k \div 10) + 1]
        ELSE "Q"]

\* Lengths of the accessions of one slice, by the slice's kind.
LenOf(kind, k) ==
    IF kind = "short" THEN (IF k % 2 = 0 THEN 14 ELSE 6)
    ELSE IF kind = "long" THEN (IF k % 2 = 0 THEN 16 ELSE 15)
    ELSE (IF k % 4 = 0 THEN 16 ELSE IF k % 4 = 1 THEN 6
          ELSE IF k % 4 = 2 THEN 14 ELSE 15)

NumSlices(n) == (n + chunk_size - 1) \div chunk_size

\* A list of n distinct accessions, as list(all_targets) is.
GenList(n, kinds) ==
    [k \in 1..n |-> AccOf(k, LenOf(kinds[((k - 1) \div chunk_size) + 1], k))]

BatchAnswers == {RaiseResp, NoneResp, Frame(<<R_P2>>), Frame(<<R_P9, R_P2b>>)}

\* Answers of the interaction service in the specification of main().
PipeResponses ==
    {ExceptionResp}
        \cup [kind : {"response"}, status : {200}, text : MineTexts \ {<<>>}]

PipeAnswers ==
    {RaiseResp, NoneResp, Frame(<<>>), Frame(<<R_P2>>), Frame(<<R_P3nan>>),
     Frame(<<R_P2, R_P3nan, R_P9>>), Frame(<<R_P2b, R_P2, R_P2>>),
     Frame(<<Row(P3, FooBar, PF003), Row(Absent, FooBar, PF003), R_P2>>)}

----------------------------------------------------------------------------
(* Specifications *)

InitCommon ==
    /\ pos = 1
    /\ queried = <<>>
    /\ interaction_data = <<>>
    /\ all_targets = {}
    /\ i = 0
    /\ slices = 0
    /\ queries = <<>>
    /\ domain_data = <<>>
    /\ written = <<>>
    /\ df_master = <<>>

\* main(), whole, on small inputs.
Init ==
    /\ pc = "mine"
    /\ \E n \in 0..MaxChaperones :
        \E m \in Mappings(n, {P1, P2}, PipeResponses) :
            /\ chap_map = MapOf(m)
            /\ intact = AnswersOf(m)
    /\ annot \in [{1} -> PipeAnswers]
    /\ accession_list = <<>>
    /\ InitCommon

Next == SkipInvalid \/ MineChaperone \/ FinishMining \/ BatchStep \/ BatchReturn \/ Assemble

Spec == Init /\ [][Next]_vars

\* The mining loop of main().
InitMine ==
    /\ pc = "mine"
    /\ \E n \in 0..MaxChaperones :
        \E m \in Mappings(n, {P1, P2}, IntactResponses(MineTexts)) :
            /\ chap_map = MapOf(m)
            /\ intact = AnswersOf(m)
    /\ annot = <<>>
    /\ accession_list = <<>>
    /\ InitCommon

NextMine == SkipInvalid \/ MineChaperone

SpecMine == InitMine /\ [][NextMine]_vars

\* get_intact_interactions on one accession and one response text.
InitParse ==
    /\ pc = "mine"
    /\ \E m \in Mappings(1, {P1}, IntactResponses(ParseTexts)) :
            /\ chap_map = MapOf(m)
            /\ intact = AnswersOf(m)
    /\ annot = <<>>
    /\ accession_list = <<>>
    /\ InitCommon

SpecParse == InitParse /\ [][NextMine]_vars

\* get_domains_batch on lists of up to MaxListLen accessions.
InitBatch ==
    /\ pc = "batch"
    /\ chap_map = <<>>
    /\ intact = <<>>
    /\ \E n \in 0..MaxListLen :
        /\ \E kinds \in [1..NumSlices(n) -> {"short", "mixed", "long"}] :
              accession_list = GenList(n, kinds)
        /\ annot \in [1..NumSlices(n) -> BatchAnswers]
    /\ InitCommon

NextBatch == BatchStep \/ BatchReturn

SpecBatch == InitBatch /\ [][NextBatch]_vars

\* get_domains_batch on one slice, with answers of up to MaxRows rows.
InitRows ==
    /\ pc = "batch"
    /\ chap_map = <<>>
    /\ intact = <<>>
    /\ accession_list \in {<<P2>>, <<P2, P3>>}
    /\ annot \in [{1} -> {RaiseResp, NoneResp} \cup
                          {Frame(rows) : rows \in SeqsUpTo(RichRows, MaxRows)}]
    /\ InitCommon

SpecRows == InitRows /\ [][NextBatch]_vars

----------------------------------------------------------------------------
(* Properties of the mining loop (SpecMine, SpecParse) *)

MiningOver == pc = "mine" /\ pos > Len(chap_map)

Failed(resp) == resp.kind = "exception" \/ resp.status # 200

EdgesOf(name) == SelectSeq(interaction_data, LAMBDA e : e.Chaperone_Name = name)

\* C1: no emitted InteractionEdge has Target_ID equal to its own
\* Chaperone_ID, whatever the mapping and the interaction service's answers.
C1_NoSelfInteraction ==
    \A k \in 1..Len(interaction_data) :
        interaction_data[k].Target_ID # interaction_data[k].Chaperone_ID

\* The loop is over, and a chaperone whose answer named the chaperone itself
\* has edges.
C1_Witness ==
    /\ MiningOver
    /\ \E k \in 1..Len(chap_map) :
          /\ chap_map[k].acc = P1
          /\ ~Failed(intact[k])
          /\ Contains(intact[k].text, F_P1)
          /\ EdgesOf(chap_map[k].name) # <<>>

\* C2: the edge list holds no two entries with the same
\* (Chaperone_Name, Target_ID, Source) triple.
C2_NoDuplicateTriples ==
    \A a, b \in 1..Len(interaction_data) :
        (/\ interaction_data[a].Chaperone_Name = interaction_data[b].Chaperone_Name
         /\ interaction_data[a].Target_ID = interaction_data[b].Target_ID
         /\ interaction_data[a].Source = interaction_data[b].Source) => a = b

\* The loop is over, and an answer that named one partner several times (on
\* several lines, in both columns) produced edges.
C2_Witness ==
    /\ MiningOver
    /\ \E k \in 1..Len(chap_map) :
          /\ IsStr(chap_map[k].acc)
          /\ ~Failed(intact[k])
          /\ Len(AllLineIds(chap_map[k].acc, intact[k].text))
                > Cardinality(Targets(chap_map[k].acc, intact[k].text))
          /\ EdgesOf(chap_map[k].name) # <<>>

StringAccessions ==
    LET strs == SelectSeq(chap_map, LAMBDA c : IsStr(c.acc))
    IN  [k \in 1..Len(strs) |-> strs[k].acc]

\* C3: a chaperone whose query failed (requests.get raised, or the status
\* is not 200) contributes no edge; every chaperone with a string accession
\* is queried, those after a failure too, and contributes the edges its own
\* answer gives; every call of get_intact_interactions returns a list.
C3_FailureIsolated ==
    /\ (pc = "mine" /\ pos <= Len(chap_map) /\ IsStr(chap_map[pos].acc)) =>
          get_intact_interactions(chap_map[pos].acc, intact[pos]) # {}
    /\ MiningOver =>
        /\ queried = StringAccessions
        /\ \A k \in 1..Len(chap_map) :
              LET name == chap_map[k].name
                  acc == chap_map[k].acc
              IN  IF ~IsStr(acc) \/ Failed(intact[k])
                  THEN EdgesOf(name) = <<>>
                  ELSE EdgesOf(name) \in
                          {NewEdges(name, acc, partners) :
                              partners \in Orderings(Targets(acc, intact[k].text))}

\* The loop is over on three chaperones; the query of the second returned
\* status 500 with a body that names partners and gave no edge, the first
\* and the third have their edges.
C3_Witness ==
    /\ MiningOver
    /\ Len(chap_map) = 3
    /\ \A k \in 1..3 : IsStr(chap_map[k].acc)
    /\ intact[2].kind = "response"
    /\ intact[2].status = 500
    /\ Targets(chap_map[2].acc, intact[2].text) # {}
    /\ EdgesOf(chap_map[2].name) = <<>>
    /\ EdgesOf(chap_map[1].name) # <<>>
    /\ EdgesOf(chap_map[3].name) # <<>>

\* The first place of sub in s.
IndexOf(s, sub) ==
    CHOOSE k \in 1..(Len(s) - Len(sub) + 1) :
        /\ SubSeq(s, k, k + Len(sub) - 1) = sub
        /\ \A q \in 1..(k - 1) : SubSeq(s, q, q + Len(sub) - 1) # sub

\* s up to its first c, all of s if it has none.
CutBefore(s, c) ==
    IF \E k \in 1..Len(s) : s[k] = c
    THEN SubSeq(s, 1, (CHOOSE k \in 1..Len(s) :
                          s[k] = c /\ \A q \in 1..(k - 1) : s[q] # c) - 1)
    ELSE s

\* The identifier of a raw field as the specification has it: the text after
\* the prefix, cut before the isoform separator; none without the prefix.
SpecifiedId(raw) ==
    IF Contains(raw, UniprotPrefix)
    THEN CutBefore(SubSeq(raw, IndexOf(raw, UniprotPrefix) + Len(UniprotPrefix),
                          Len(raw)), "-")
    ELSE None

\* Columns 0 and 1 of the lines of text that are parsed.
RawFields(text) ==
    LET lines == SplitLines(text)
        parsed == {k \in 1..Len(lines) :
                      /\ lines[k] # <<>>
                      /\ lines[k][1] # "#"
                      /\ Len(Split(lines[k], TAB)) >= 2}
    IN  UNION {{Split(lines[k], TAB)[1], Split(lines[k], TAB)[2]} : k \in parsed}

\* C7: for every raw field of a parsed line, parse_id gives the text after
\* the prefix 'uniprotkb:' cut before '-', and none for a field without the
\* prefix; the partner set holds exactly the identifiers so obtained (the
\* empty one and the queried accession left out).
C7_ParseIdAsSpecified ==
    (MiningOver /\ Len(chap_map) = 1 /\ IsStr(chap_map[1].acc) /\ ~Failed(intact[1])) =>
        /\ \A raw \in RawFields(intact[1].text) : parse_id(raw) = SpecifiedId(raw)
        /\ all_targets =
              {SpecifiedId(raw) : raw \in RawFields(intact[1].text)}
                  \ {None, <<>>, chap_map[1].acc}

----------------------------------------------------------------------------
(* Properties of get_domains_batch (SpecBatch, SpecRows) *)

BatchOver == pc = "domains"

Short(x) == Len(x) < 15

\* The slices of the accession list that keep an accession to send.
SentSlices ==
    {b \in 1..NumSlices(Len(accession_list)) :
        \E k \in 1..Len(accession_list) :
            /\ (k - 1) \div 20 = b - 1
            /\ Short(accession_list[k])}

\* The members of a set of numbers, ascending.
Ascending(S) ==
    [k \in 1..Cardinality(S) |-> CHOOSE b \in S : Cardinality({c \in S : c < b}) = k - 1]

\* C4: a batch whose remote call raises contributes no DomainRecord, every
\* later batch is still queried, and the records of the other batches are
\* those of their own answers.
C4_BatchFailureIsolated ==
    BatchOver =>
        LET sent == Ascending(SentSlices)
        IN  /\ Len(queries) = Len(sent)
            /\ domain_data =
                  Concat([k \in 1..Len(sent) |->
                            IF annot[sent[k]].kind = "raise" THEN <<>>
                            ELSE BatchRecords(annot[sent[k]])])

\* The loop is over; a batch raised, and a later batch gave records.
C4_Witness ==
    /\ BatchOver
    /\ \E a, b \in SentSlices :
          /\ a < b
          /\ annot[a].kind = "raise"
          /\ annot[b].kind = "df"
    /\ domain_data # <<>>

\* How many times acc is sent to the annotation service.
TimesSent(acc) ==
    Cardinality({qj \in (1..Len(queries)) \X (1..Len(accession_list)) :
                    qj[2] <= Len(queries[qj[1]]) /\ queries[qj[1]][qj[2]] = acc})

\* C5 as stated: an accession of the list is in exactly one annotation query
\* if its length does not exceed 15, and in none if it exceeds 15.
C5_Original ==
    BatchOver =>
        \A k \in 1..Len(accession_list) :
            TimesSent(accession_list[k]) =
                (IF Len(accession_list[k]) <= 15 THEN 1 ELSE 0)

\* C5, amended: an accession of the list is in exactly one annotation query
\* if its length is below 15, and in none if its length is 15 or more.
C5_SentOnceIffBelow15 ==
    BatchOver =>
        \A k \in 1..Len(accession_list) :
            TimesSent(accession_list[k]) =
                (IF Len(accession_list[k]) < 15 THEN 1 ELSE 0)

\* The loop is over on a list of more than one slice that holds accessions
\* of 14, 15 and 16 characters.
C5_Witness ==
    /\ BatchOver
    /\ Len(queries) >= 2
    /\ \A n \in {14, 15, 16} :
          \E k \in 1..Len(accession_list) : Len(accession_list[k]) = n

\* C6 as stated: a list whose length is a multiple of 20 gives len/20
\* annotation queries, a list of 21 gives 2, and no query is empty or holds
\* more than 20 accessions.
C6_Original ==
    BatchOver =>
        LET n == Len(accession_list)
        IN  /\ n % 20 = 0 => Len(queries) = n \div 20
            /\ n = 21 => Len(queries) = 2
            /\ \A q \in 1..Len(queries) :
                  Len(queries[q]) >= 1 /\ Len(queries[q]) <= 20

\* C6, amended: the loop takes len/20 slices of a list whose length is a
\* multiple of 20, and one more otherwise (2 for 21); one query is sent for
\* each slice that keeps an accession shorter than 15 characters, so as many
\* queries as slices when every slice keeps one; no query is empty or holds
\* more than 20 accessions.
C6_SlicesAndQueries ==
    BatchOver =>
        LET n == Len(accession_list)
        IN  /\ n % 20 = 0 => slices = n \div 20
            /\ n % 20 # 0 => slices = (n \div 20) + 1
            /\ n = 21 => slices = 2
            /\ Len(queries) = Cardinality(SentSlices)
            /\ (\A k \in 1..n : Short(accession_list[k])) => Len(queries) = slices
            /\ \A q \in 1..Len(queries) :
                  Len(queries[q]) >= 1 /\ Len(queries[q]) <= 20

\* The loop is over on a list of 40 accessions, sent as two queries of 20.
C6_Witness ==
    /\ BatchOver
    /\ Len(accession_list) = 40
    /\ Len(queries) = 2
    /\ Len(queries[1]) = 20
    /\ Len(queries[2]) = 20

\* The domain field of a row, as a string.
DomainField(row) ==
    IF row.Pfam = Absent THEN <<>>
    ELSE IF row.Pfam = NaN THEN <<"n", "a", "n">>
    ELSE IF row.Pfam = None THEN <<"N", "o", "n", "e">>
    ELSE row.Pfam

IsSentinel(f) ==
    Len(f) = 3 /\ f[1] \in {"n", "N"} /\ f[2] \in {"a", "A"} /\ f[3] \in {"n", "N"}

Blank(s) == \A k \in 1..Len(s) : s[k] \in {" ", TAB, NL}

\* The ';'-separated tokens of f that are not blank, counted by the places
\* where they start.
TokenCount(f) ==
    Cardinality({j \in 1..Len(f) :
        /\ j = 1 \/ f[j - 1] = ";"
        /\ \E k \in j..Len(f) :
              /\ \A m \in j..k : f[m] # ";"
              /\ ~Blank(<<f[k]>>)})

RECURSIVE SumOf(_)
SumOf(ns) == IF ns = <<>> THEN 0 ELSE Head(ns) + SumOf(Tail(ns))

\* C10: a row whose domain field is empty or 'nan' in any letter case gives
\* no DomainRecord, any other row one DomainRecord per non-blank token of the
\* field; no Domain_ID is blank or contains ';'.
C10_RecordsPerRow ==
    /\ \A k \in 1..Len(domain_data) :
          /\ ~Blank(domain_data[k].Domain_ID)
          /\ \A j \in 1..Len(domain_data[k].Domain_ID) :
                domain_data[k].Domain_ID[j] # ";"
    /\ (BatchOver /\ annot[1].kind = "df") =>
          Len(domain_data) =
              SumOf([k \in 1..Len(annot[1].rows) |->
                        LET f == DomainField(annot[1].rows[k])
                        IN  IF f = <<>> \/ IsSentinel(f) THEN 0 ELSE TokenCount(f)])

\* The loop is over on an answer with a row whose field has a blank token
\* between two domains and a row whose field is 'NaN'.
C10_Witness ==
    /\ BatchOver
    /\ annot[1].kind = "df"
    /\ \E a, b \in 1..Len(annot[1].rows) :
          /\ annot[1].rows[a].Pfam = PF001 \o <<";", " ", ";">> \o PF002
          /\ annot[1].rows[b].Pfam = <<"N", "a", "N">>
    /\ Len(domain_data) = 2

----------------------------------------------------------------------------
(* Properties of main() (Spec) *)

MasterWritten == \E k \in 1..Len(written) : written[k] = MASTER_FILE

\* The pairs (edge, record) with the same Target_ID.
JoinPairs ==
    {p \in (1..Len(interaction_data)) \X (1..Len(domain_data)) :
        interaction_data[p[1]].Target_ID = domain_data[p[2]].Target_ID}

Joined(p) ==
    [Chaperone_Name |-> interaction_data[p[1]].Chaperone_Name,
     Chaperone_ID |-> interaction_data[p[1]].Chaperone_ID,
     Target_ID |-> interaction_data[p[1]].Target_ID,
     Target_Protein_Name |-> domain_data[p[2]].Target_Protein_Name,
     Domain_ID |-> domain_data[p[2]].Domain_ID,
     Interaction_Label |-> 1,
     Source |-> interaction_data[p[1]].Source]

\* C8: the master table holds one row for each pair of an edge and a record
\* with the same Target_ID and no other row; every row has Interaction_Label
\* 1 and a Target_ID with a DomainRecord; an edge without a record is in no
\* row.
C8_MasterIsInnerJoin ==
    MasterWritten =>
        /\ Len(df_master) = Cardinality(JoinPairs)
        /\ \A k \in 1..Len(df_master) :
              /\ Cardinality({j \in 1..Len(df_master) : df_master[j] = df_master[k]})
                    = Cardinality({p \in JoinPairs : Joined(p) = df_master[k]})
              /\ df_master[k].Interaction_Label = 1
              /\ \E d \in 1..Len(domain_data) :
                    domain_data[d].Target_ID = df_master[k].Target_ID
        /\ \A p \in JoinPairs : \E k \in 1..Len(df_master) : df_master[k] = Joined(p)
        /\ \A e \in 1..Len(interaction_data) :
              (\A d \in 1..Len(domain_data) :
                    domain_data[d].Target_ID # interaction_data[e].Target_ID)
                => \A k \in 1..Len(df_master) :
                      ~(/\ df_master[k].Chaperone_Name = interaction_data[e].Chaperone_Name
                        /\ df_master[k].Target_ID = interaction_data[e].Target_ID)

\* The master table is written with the two rows of P2's two domains, while
\* the edge to P3, whose Pfam field was nan, is in no row.
C8_Witness ==
    /\ pc = "done"
    /\ MasterWritten
    /\ Len(df_master) = 2
    /\ df_master[1].Target_Protein_Name = <<"F", "o", "o">>
    /\ {df_master[1].Domain_ID, df_master[2].Domain_ID} = {PF001, PF002}
    /\ \E e \in 1..Len(interaction_data) : interaction_data[e].Target_ID = P3
    /\ annot[1] = Frame(<<R_P2, R_P3nan, R_P9>>)

\* C9: with no edge or no record main() returns at once, writing nothing
\* more; the master table is written only after the interactions table and
\* the domains table, both non-empty, were written.
C9_EarlyExit ==
    /\ [](/\ MasterWritten =>
              /\ written = <<INTERACTIONS_FILE, DOMAINS_FILE, MASTER_FILE>>
              /\ interaction_data # <<>>
              /\ domain_data # <<>>
          /\ (pc = "done" /\ (interaction_data = <<>> \/ domain_data = <<>>)) =>
                ~MasterWritten)
    /\ [][/\ (MiningOver /\ interaction_data = <<>>) =>
                (pc' = "done" /\ written' = written)
          /\ (pc = "domains" /\ domain_data = <<>>) =>
                (pc' = "done" /\ written' = written)]_vars

\* main() has returned with edges and no record: only the interactions
\* table is written.
C9_Witness ==
    /\ pc = "done"
    /\ interaction_data # <<>>
    /\ domain_data = <<>>
    /\ written = <<INTERACTIONS_FILE>>

====
